---- MODULE Spec2Model ----
(***************************************************************************)
(* The download engine of image-download-tool: DownloadService             *)
(* (api/src/services/downloadService.ts), the HTTP routes that drive it    *)
(* (api/src/routes/downloads.ts) and the socket broadcast of its events    *)
(* (api/src/services/socketService.ts, api/src/index.ts).                  *)
(*                                                                         *)
(* Node runs one handler at a time.  An action of this module is one       *)
(* macrotask: an HTTP request, or the completion of an awaited I/O         *)
(* operation, together with the synchronous code and the promise           *)
(* continuations (microtasks) that run before the next macrotask.          *)
(*                                                                         *)
(* Task records are JavaScript objects: `tasks` is the heap (index =       *)
(* object identity), activeTasks maps a task id to an object, and every    *)
(* activation of executeDownload keeps its own reference `task`.           *)
(***************************************************************************)
EXTENDS Integers, Sequences, FiniteSets, TLC

\* ---------------------------------------------------------------- constants
maxConcurrentDownloads == 3
retryAttempts == 3

\* ------------------------------------------------------------------- bounds
MaxVerbs == 3     \* control requests (pause, resume, cancel, delete) in Spec
MaxFaults == 1    \* registry requests or blob streams that fail in Spec
MaxSockets == 1   \* socket.io clients in SpecBus
ConfigSize == 1   \* bytes of the config blob the selected manifest names

VARIABLES
  tasks,            \* heap of DownloadTask objects (a sequence; index = identity)
  activeTasks,      \* Map<taskId, DownloadTask>: id -> index into tasks
  taskControllers,  \* Map<taskId, AbortController>: id -> the run that owns it
  runs,             \* activations of executeDownload (a sequence; index = run)
  files,            \* downloads/tasks/<id>/: blob file lengths, manifest, config
  clock,            \* Date.now() at the latest startDownload
  emitted,          \* the events handed to the socket broadcast in this step
  sockets,          \* connected socket.io clients: socket -> the rooms it joined
  delivered,        \* socket -> the events sent to it in this step
  last,             \* the control request this step handled, if it is one
  hist,             \* history per task id (what has been accepted and emitted)
  crashed,          \* an exception escaped a stream listener: the process died
  env               \* what the environment does: the requests and faults left,
                    \* the sources, the images (an image is the sequence of
                    \* its layers' sizes), the error kinds and the payloads
                    \* (intact or not) it uses; whether hist keeps `saved`

vars == <<tasks, activeTasks, taskControllers, runs, files, clock, emitted,
          sockets, delivered, last, hist, crashed, env>>

\* ------------------------------------------------------------------ helpers
NoError == "none"
NoTask == 0

Max(a, b) == IF a >= b THEN a ELSE b

RECURSIVE SumSeq(_)
SumSeq(q) == IF q = <<>> THEN 0 ELSE Head(q) + SumSeq(Tail(q))

\* Map.set / Map.delete on a function with a dynamic domain
MapSet(m, k, v) == [x \in DOMAIN m \cup {k} |-> IF x = k THEN v ELSE m[x]]
MapDelete(m, k) == [x \in DOMAIN m \ {k} |-> m[x]]

NoRequest == [op |-> "none", id |-> 0]

\* the service state as one value, so that calls compose
Cur ==
  [tasks |-> tasks, activeTasks |-> activeTasks,
   taskControllers |-> taskControllers, runs |-> runs, files |-> files,
   emitted |-> <<>>, sockets |-> sockets,
   delivered |-> [k \in DOMAIN sockets |-> <<>>], hist |-> hist,
   crashed |-> crashed]

Apply(s) ==
  /\ tasks' = s.tasks
  /\ activeTasks' = s.activeTasks
  /\ taskControllers' = s.taskControllers
  /\ runs' = s.runs
  /\ files' = s.files
  /\ emitted' = s.emitted
  /\ sockets' = s.sockets
  /\ delivered' = s.delivered
  /\ hist' = s.hist
  /\ crashed' = s.crashed

\* held: a pause was accepted and no resume since; parked: a pause was
\* accepted and no resume, cancel or retry since; errors, completes: the
\* download:error and download:complete events emitted so far
NoHist == [held |-> FALSE, parked |-> FALSE, errors |-> 0, completes |-> 0,
           saved |-> {}]

HistOf(h, id) == IF id \in DOMAIN h THEN h[id] ELSE NoHist

\* a counter of the history saturates at 2: 0, 1, many
Sat(n) == IF n >= 2 THEN 2 ELSE n + 1

DoneRun == [id |-> 0, task |-> NoTask, pc |-> "done", layer |-> 0,
            downloaded |-> 0, blobTask |-> NoTask]

\* ------------------------------------------------- api/src/index.ts: events
\* downloadService.on('downloadProgress' | 'downloadComplete' | 'downloadError')
ProgressEvent(t) ==
  [type |-> "download:progress", taskId |-> t.id, progress |-> t.progress,
   downloadedBytes |-> t.downloadedBytes, totalBytes |-> t.totalBytes,
   checksum |-> "", error |-> NoError]

CompleteEvent(t) ==
  [type |-> "download:complete", taskId |-> t.id, progress |-> t.progress,
   downloadedBytes |-> t.downloadedBytes, totalBytes |-> t.totalBytes,
   checksum |-> t.checksum, error |-> NoError]

ErrorEvent(t) ==
  [type |-> "download:error", taskId |-> t.id, progress |-> t.progress,
   downloadedBytes |-> t.downloadedBytes, totalBytes |-> t.totalBytes,
   checksum |-> "", error |-> IF t.error = NoError THEN "unknown" ELSE t.error]

\* socketService.ts, broadcastDownloadProgress / Complete / Error:
\* io.to(roomId).emit(event.type, event), then io.emit(event.type, event)
broadcast(socks, dlv, e) ==
  LET room == [k \in DOMAIN dlv |->
                 IF e.taskId \in socks[k] THEN Append(dlv[k], e) ELSE dlv[k]]
  IN [k \in DOMAIN dlv |-> Append(room[k], e)]

\* this.emit(...): the listener of index.ts runs synchronously
Emit(s, e) ==
  LET h == HistOf(s.hist, e.taskId)
      h2 == CASE e.type = "download:progress" -> h
              [] e.type = "download:complete" -> [h EXCEPT !.completes = Sat(@)]
              [] OTHER -> [h EXCEPT !.errors = Sat(@)]
  IN [s EXCEPT !.emitted = Append(@, e),
               !.delivered = broadcast(s.sockets, @, e),
               !.hist = MapSet(@, e.taskId, h2)]

\* ------------------------------------------------ DownloadService (part_008)
updateTaskStatus(s, taskId, status, err) ==
  IF taskId \notin DOMAIN s.activeTasks THEN s
  ELSE
    LET o == s.activeTasks[taskId]
        t == [s.tasks[o] EXCEPT !.status = status,
                                !.error = IF err = NoError THEN @ ELSE err]
        s1 == [s EXCEPT !.tasks[o] = t]
    IN CASE status = "completed" -> Emit(s1, CompleteEvent(t))
         [] status = "error" -> Emit(s1, ErrorEvent(t))
         [] OTHER -> s1

\* progress is a percentage; it is kept as the exact fraction n/d of 100
Pct(n, d) == IF n >= d THEN [n |-> 1, d |-> 1] ELSE [n |-> n, d |-> d]

updateTaskProgress(s, taskId, progress, downloadedSize) ==
  IF taskId \notin DOMAIN s.activeTasks THEN s
  ELSE
    LET o == s.activeTasks[taskId]
        t == [s.tasks[o] EXCEPT !.progress = Pct(progress.n, progress.d),
                                !.downloadedSize = downloadedSize]
    IN Emit([s EXCEPT !.tasks[o] = t], ProgressEvent(t))

\* the catch block, were the retry test `retryCount <= this.retryAttempts`
catchBlockOneMore(s, r, err) ==
  LET run == s.runs[r]
      s1 == updateTaskStatus(s, run.id, "error", err)
      retryCount == s1.tasks[run.task].retryCount
  IN IF retryCount <= retryAttempts
     THEN [s1 EXCEPT !.tasks[run.task].retryCount = retryCount + 1,
                     !.runs[r].pc = "delay",
                     !.runs[r].downloaded = 0,
                     !.runs[r].layer = 0,
                     !.runs[r].blobTask = NoTask]
     ELSE [s1 EXCEPT !.runs[r] = DoneRun]

\* the catch block of executeDownload, up to `await this.delay(...)`
catchBlock(s, r, err) ==
  LET run == s.runs[r]
      s1 == updateTaskStatus(s, run.id, "error", err)
      retryCount == s1.tasks[run.task].retryCount
  IN IF retryCount < retryAttempts
     THEN [s1 EXCEPT !.tasks[run.task].retryCount = retryCount + 1,
                     !.runs[r].pc = "delay",
                     !.runs[r].downloaded = 0,
                     !.runs[r].layer = 0,
                     !.runs[r].blobTask = NoTask]
     ELSE [s1 EXCEPT !.runs[r] = DoneRun]

\* executeDownload, were every attempt to start its byte count from zero
executeDownloadReset(s, r, taskId) ==
  IF taskId \notin DOMAIN s.activeTasks
  THEN [s EXCEPT !.runs[r] = DoneRun]
  ELSE
    LET o == s.activeTasks[taskId]
        s1 == updateTaskStatus(
                [s EXCEPT !.runs[r] = [id |-> taskId, task |-> o, pc |-> "enter",
                                       layer |-> 0, downloaded |-> 0,
                                       blobTask |-> NoTask],
                          !.tasks[o].downloadedBytes = 0],
                taskId, "downloading", NoError)
    IN [s1 EXCEPT !.runs[r].pc = "token"]

\* executeDownload from its entry to its first await
executeDownload(s, r, taskId) ==
  IF taskId \notin DOMAIN s.activeTasks
  THEN [s EXCEPT !.runs[r] = DoneRun]
  ELSE
    LET o == s.activeTasks[taskId]
        s1 == updateTaskStatus(
                [s EXCEPT !.runs[r] = [id |-> taskId, task |-> o, pc |-> "enter",
                                       layer |-> 0, downloaded |-> 0,
                                       blobTask |-> NoTask]],
                taskId, "downloading", NoError)
        source == s.tasks[o].source
    IN CASE source = "dockerhub" -> [s1 EXCEPT !.runs[r].pc = "token"]
         [] source = "aliyun" -> [s1 EXCEPT !.runs[r].pc = "manifest"]
         [] OTHER -> catchBlock(s1, r, "UnsupportedSource")

\* the layer loop, were it to leave out the layer after the one that ended
nextLayerSkipping(s, r, i) ==
  LET run == s.runs[r]
      t == s.tasks[run.task]
      j == IF i > 1 THEN i + 1 ELSE i
  IN IF j > Len(t.image)
     THEN [s EXCEPT !.runs[r].pc = "writeManifest", !.runs[r].layer = 0,
                    !.runs[r].downloaded = 0, !.runs[r].blobTask = NoTask]
     ELSE [s EXCEPT !.runs[r].pc = "layerToken", !.runs[r].layer = j,
                    !.runs[r].downloaded = 0, !.runs[r].blobTask = NoTask]

\* the layer loop: the step to layer i, or past the last layer
nextLayer(s, r, i) ==
  LET run == s.runs[r]
      t == s.tasks[run.task]
  IN IF i > Len(t.image)
     THEN [s EXCEPT !.runs[r].pc = "writeManifest", !.runs[r].layer = 0,
                    !.runs[r].downloaded = 0, !.runs[r].blobTask = NoTask]
     ELSE IF t.source = "dockerhub"
     THEN [s EXCEPT !.runs[r].pc = "layerToken", !.runs[r].layer = i,
                    !.runs[r].downloaded = 0, !.runs[r].blobTask = NoTask]
     ELSE \* downloadGenericBlob: new AbortController, taskControllers.set
          [s EXCEPT !.runs[r].pc = "blobReq", !.runs[r].layer = i,
                    !.runs[r].downloaded = 0, !.runs[r].blobTask = NoTask,
                    !.taskControllers = MapSet(@, run.id, r)]

\* controller.abort(): the request or stream of the run that owns the
\* controller is rejected; a controller whose stream has ended is inert
abort(s, r) ==
  IF s.runs[r].pc \in {"blobReq", "stream"}
  THEN [s EXCEPT !.runs[r].pc = "rejected"]
  ELSE s

\* the continuations of the rejected promises run before the next macrotask
RECURSIVE runMicrotasks(_)
runMicrotasks(s) ==
  LET rej == {r \in DOMAIN s.runs : s.runs[r].pc = "rejected"}
  IN IF rej = {} THEN s
     ELSE LET r == CHOOSE x \in rej : \A y \in rej : x <= y
          IN runMicrotasks(catchBlock(s, r, "Cancelled"))

pauseDownload(s, taskId) ==
  LET s1 == IF taskId \in DOMAIN s.taskControllers
            THEN [abort(s, s.taskControllers[taskId])
                    EXCEPT !.taskControllers = MapDelete(@, taskId)]
            ELSE s
  IN IF taskId \in DOMAIN s1.activeTasks
        /\ s1.tasks[s1.activeTasks[taskId]].status = "downloading"
     THEN [s1 EXCEPT !.tasks[s1.activeTasks[taskId]].status = "paused"]
     ELSE s1

resumeDownload(s, taskId) ==
  IF taskId \notin DOMAIN s.activeTasks
     \/ s.tasks[s.activeTasks[taskId]].status # "paused"
  THEN s
  ELSE executeDownload([s EXCEPT !.runs = Append(@, DoneRun)],
                       Len(s.runs) + 1, taskId)

cancelDownload(s, taskId) ==
  LET s1 == IF taskId \in DOMAIN s.taskControllers
            THEN [abort(s, s.taskControllers[taskId])
                    EXCEPT !.taskControllers = MapDelete(@, taskId)]
            ELSE s
  IN IF taskId \in DOMAIN s1.activeTasks
     THEN [s1 EXCEPT !.tasks[s1.activeTasks[taskId]].status = "cancelled",
                     !.activeTasks = MapDelete(@, taskId)]
     ELSE s1

retryDownload(s, taskId) ==
  IF taskId \notin DOMAIN s.activeTasks THEN s
  ELSE
    LET o == s.activeTasks[taskId]
        s1 == [s EXCEPT !.tasks[o].status = "pending",
                        !.tasks[o].progress = [n |-> 0, d |-> 1],
                        !.tasks[o].downloadedSize = 0,
                        !.tasks[o].retryCount = 0]
    IN executeDownload([s1 EXCEPT !.runs = Append(@, DoneRun)],
                       Len(s.runs) + 1, taskId)

cleanupCompletedTasks(s) ==
  [s EXCEPT !.activeTasks =
     [k \in {x \in DOMAIN s.activeTasks :
               s.tasks[s.activeTasks[x]].status \notin {"completed", "cancelled"}}
        |-> s.activeTasks[k]]]

\* ------------------------------------------------------------------ actions
NewTask(taskId, source, image) ==
  [id |-> taskId, source |-> source, image |-> image, status |-> "pending",
   progress |-> [n |-> 0, d |-> 1], totalBytes |-> 0, downloadedBytes |-> 0,
   downloadedSize |-> 0, retryCount |-> 0, error |-> NoError, checksum |-> ""]

\* blobs: layer -> the length of its file; corrupt: the layers whose file
\* holds bytes that do not hash to the layer's digest
EmptyDir == [manifest |-> FALSE, config |-> FALSE, blobs |-> <<>>, corrupt |-> {}]

Spend(what) == env' = [env EXCEPT ![what] = @ - 1]

\* an awaited operation of run r completes: no HTTP request is handled
Io == /\ last' = NoRequest
      /\ UNCHANGED <<clock, env>>

Request(op, taskId) ==
  /\ last' = [op |-> op, id |-> taskId]
  /\ clock' = clock
  /\ Spend("verbs")

\* startDownload, from fs.mkdir(taskDir, {recursive: true}), which keeps a
\* directory that exists, to the first await of executeDownload
startDownload(s, taskId, source, image) ==
  LET o == Len(s.tasks) + 1
      s1 == [s EXCEPT !.tasks = Append(@, NewTask(taskId, source, image)),
                      !.activeTasks = MapSet(@, taskId, o),
                      !.files = IF taskId \in DOMAIN @ THEN @
                                ELSE MapSet(@, taskId, EmptyDir),
                      !.runs = Append(@, DoneRun)]
  IN executeDownload(s1, Len(s.runs) + 1, taskId)

\* POST /api/downloads answers 200.  taskId = Date.now().toString(): the
\* clock has (tick 1) or has not (tick 0) advanced since the latest create
StartDownload ==
  /\ ~crashed /\ env.creates > 0
  /\ \E taskId \in {clock + d : d \in env.ticks} \ {0}, source \in env.sources,
        image \in env.images :
       /\ Apply(runMicrotasks(startDownload(Cur, taskId, source, image)))
       /\ clock' = taskId
       /\ last' = [op |-> "create", id |-> taskId]
  /\ Spend("creates")

Awaiting(r, pc) == ~crashed /\ r \in DOMAIN runs /\ runs[r].pc = pc

\* getDockerToken resolved (line 97)
TokenOk(r) ==
  /\ Awaiting(r, "token")
  /\ Apply([Cur EXCEPT !.runs[r].pc = "manifest"])
  /\ Io

\* getDockerManifestInfo / getGenericManifestInfo resolved (lines 98-114)
manifestResolved(s, r) ==
  LET run == s.runs[r]
      totalBytes == SumSeq(s.tasks[run.task].image)
  IN [s EXCEPT !.tasks[run.task].totalBytes = totalBytes,
               !.activeTasks = MapSet(@, run.id, run.task),
               !.runs[r].pc = "mkdir"]

ManifestOk(r) ==
  /\ Awaiting(r, "manifest")
  /\ Apply(manifestResolved(Cur, r))
  /\ Io

\* fs.mkdir(blobsDir) resolved: the layer loop starts
MkdirOk(r) ==
  /\ Awaiting(r, "mkdir")
  /\ Apply(nextLayer(Cur, r, 1))
  /\ Io

\* getDockerToken of a layer resolved: downloadDockerBlob up to its request
blobRequested(s, r) ==
  [s EXCEPT !.runs[r].pc = "blobReq",
            !.taskControllers = MapSet(@, s.runs[r].id, r)]

LayerTokenOk(r) ==
  /\ Awaiting(r, "layerToken")
  /\ Apply(blobRequested(Cur, r))
  /\ Io

\* the blob response arrived: createWriteStream(outPath) truncates the file,
\* and line 259 reads the task out of the map
blobOpened(s, r) ==
  LET run == s.runs[r]
  IN [s EXCEPT !.files[run.id].blobs = MapSet(@, run.layer, 0),
               !.files[run.id].corrupt = @ \ {run.layer},
               !.runs[r].pc = "stream",
               !.runs[r].downloaded = 0,
               !.runs[r].blobTask =
                  IF run.id \in DOMAIN s.activeTasks
                  THEN s.activeTasks[run.id] ELSE NoTask]

BlobResp(r) ==
  /\ Awaiting(r, "blobReq")
  /\ Apply(blobOpened(Cur, r))
  /\ Io

LayerSize(s, r) == s.tasks[s.runs[r].task].image[s.runs[r].layer]

\* the 'data' listener of the blob stream, and the pipe into the writer
onData(s, r, len) ==
  LET run == s.runs[r]
      task == s.tasks[run.blobTask]
      total == IF task.totalBytes # 0 THEN task.totalBytes ELSE LayerSize(s, r)
      newDownloaded == task.downloadedBytes + len
      written == run.downloaded + len
      s1 == [s EXCEPT !.runs[r].downloaded = written,
                      !.files[run.id].blobs[run.layer] = Max(@, written)]
  IN IF run.blobTask = NoTask
     THEN \* `task` is undefined: the listener throws a TypeError
          [s EXCEPT !.crashed = TRUE]
     ELSE updateTaskProgress(s1, run.id,
                             IF total # 0
                             THEN [n |-> newDownloaded, d |-> total]
                             ELSE task.progress,
                             newDownloaded)

\* resp.data.pipe(writer): the chunk goes to the file as it came, intact or
\* not
piped(s, r, intact) ==
  IF intact THEN s
  ELSE [s EXCEPT !.files[s.runs[r].id].corrupt = @ \cup {s.runs[r].layer}]

Chunk(r) ==
  /\ Awaiting(r, "stream")
  /\ \E len \in 1..(LayerSize(Cur, r) - runs[r].downloaded),
        intact \in env.payloads :
       Apply(onData(piped(Cur, r, intact), r, len))
  /\ Io

\* the writer finished: lines 274-278, then the next layer
blobFinished(s, r) ==
  LET run == s.runs[r]
  IN IF run.id \notin DOMAIN s.activeTasks
     THEN catchBlock(s, r, "TypeError")
     ELSE LET t == s.activeTasks[run.id]
              s1 == [s EXCEPT !.tasks[t].downloadedBytes = @ + run.downloaded,
                              !.taskControllers = MapDelete(@, run.id)]
          IN nextLayer(s1, r, run.layer + 1)

StreamEnd(r) ==
  /\ Awaiting(r, "stream")
  /\ runs[r].downloaded = LayerSize(Cur, r)
  /\ Apply(blobFinished(Cur, r))
  /\ Io

\* manifest.json written (line 131)
WriteManifestDone(r) ==
  /\ Awaiting(r, "writeManifest")
  /\ Apply([Cur EXCEPT !.files[runs[r].id].manifest = TRUE,
                       !.runs[r].pc = "writeConfig"])
  /\ Io

\* the end of executeDownload, were it to return without
\* updateTaskStatus(taskId, 'completed')
completedUnmarked(s, r) ==
  [s EXCEPT !.files[s.runs[r].id].config = TRUE, !.runs[r] = DoneRun]

\* config.json written, verifyFile, updateTaskStatus(taskId, 'completed')
completed(s, r) ==
  LET s1 == [s EXCEPT !.files[s.runs[r].id].config = TRUE]
  IN [updateTaskStatus(s1, s.runs[r].id, "completed", NoError)
        EXCEPT !.runs[r] = DoneRun]

WriteConfigDone(r) ==
  /\ Awaiting(r, "writeConfig")
  /\ Apply(completed(Cur, r))
  /\ Io

\* a registry request or a blob stream fails: the await throws
Fail(r) ==
  /\ ~crashed /\ r \in DOMAIN runs /\ env.faults > 0
  /\ runs[r].pc \in {"token", "manifest", "layerToken", "blobReq", "stream"}
  /\ \E kind \in env.kinds : Apply(catchBlock(Cur, r, kind))
  /\ last' = NoRequest
  /\ clock' = clock
  /\ Spend("faults")

\* the retry delay elapsed: executeDownload calls itself (line 147)
DelayDone(r) ==
  /\ Awaiting(r, "delay")
  /\ Apply(executeDownload(Cur, r, runs[r].id))
  /\ Io

Known(taskId) == ~crashed /\ env.verbs > 0 /\ taskId \in DOMAIN activeTasks

StatusOf(taskId) == tasks[activeTasks[taskId]].status

SetHist(s, taskId, held, parked) ==
  [s EXCEPT !.hist = MapSet(@, taskId, [HistOf(@, taskId) EXCEPT
                                          !.held = held, !.parked = parked])]

\* the layers of the task whose blob is on disk, whole, with its stream ended
DoneLayers(s, taskId) ==
  LET image == s.tasks[s.activeTasks[taskId]].image
      blobs == s.files[taskId].blobs
  IN {i \in DOMAIN blobs :
        /\ i <= Len(image) /\ blobs[i] = image[i]
        /\ \A r \in DOMAIN s.runs :
             ~(s.runs[r].id = taskId /\ s.runs[r].pc = "stream"
               /\ s.runs[r].layer = i)}

\* history: the pause was accepted, and, in the specifications that keep
\* it (env.saves), what the task had on disk at that moment
Paused(s, taskId) ==
  LET s1 == SetHist(s, taskId, TRUE, TRUE)
  IN IF env.saves
     THEN [s1 EXCEPT !.hist[taskId].saved = DoneLayers(s, taskId)]
     ELSE s1

\* POST /api/downloads/:taskId/pause answers 200
Pause(taskId) ==
  /\ Known(taskId) /\ StatusOf(taskId) = "downloading"
  /\ Apply(runMicrotasks(pauseDownload(Paused(Cur, taskId), taskId)))
  /\ Request("pause", taskId)

\* POST /api/downloads/:taskId/resume answers 200
Resume(taskId) ==
  /\ Known(taskId) /\ StatusOf(taskId) = "paused"
  /\ Apply(runMicrotasks(resumeDownload(SetHist(Cur, taskId, FALSE, FALSE), taskId)))
  /\ Request("resume", taskId)

\* POST /api/downloads/:taskId/cancel answers 200
Cancel(taskId) ==
  /\ Known(taskId) /\ StatusOf(taskId) # "completed"
  /\ Apply(runMicrotasks(cancelDownload(
             SetHist(Cur, taskId, HistOf(hist, taskId).held, FALSE), taskId)))
  /\ Request("cancel", taskId)

\* DELETE /api/downloads/:taskId answers 200
Delete(taskId) ==
  /\ Known(taskId) /\ StatusOf(taskId) # "downloading"
  /\ Apply(cleanupCompletedTasks(Cur))
  /\ Request("delete", taskId)

\* downloadService.retryDownload(taskId): no route and no socket handler
\* calls it
Retry(taskId) ==
  /\ Known(taskId)
  /\ Apply(runMicrotasks(retryDownload(
             SetHist(Cur, taskId, HistOf(hist, taskId).held, FALSE), taskId)))
  /\ Request("retry", taskId)

\* ------------------------------------------ socketService.ts: the clients
SocketStep(socks) ==
  /\ ~crashed
  /\ sockets' = socks
  /\ delivered' = [k \in DOMAIN socks |-> <<>>]
  /\ emitted' = <<>>
  /\ last' = NoRequest
  /\ UNCHANGED <<tasks, activeTasks, taskControllers, runs, files, clock,
                 hist, crashed, env>>

\* io.on('connection')
Connect ==
  /\ Cardinality(DOMAIN sockets) < MaxSockets
  /\ \E k \in 1..MaxSockets :
       /\ k \notin DOMAIN sockets
       /\ \A j \in 1..(k - 1) : j \in DOMAIN sockets
       /\ SocketStep(MapSet(sockets, k, {}))

\* socket.on('join-room'): the room download:<taskId>
JoinRoom(k, taskId) ==
  /\ k \in DOMAIN sockets /\ taskId \notin sockets[k]
  /\ SocketStep([sockets EXCEPT ![k] = @ \cup {taskId}])

\* socket.on('leave-room')
LeaveRoom(k, taskId) ==
  /\ k \in DOMAIN sockets /\ taskId \in sockets[k]
  /\ SocketStep([sockets EXCEPT ![k] = @ \ {taskId}])

\* ----------------------------------------------------------- specifications
InitService ==
  /\ tasks = <<>>
  /\ activeTasks = <<>>
  /\ taskControllers = <<>>
  /\ runs = <<>>
  /\ files = <<>>
  /\ clock = 0
  /\ emitted = <<>>
  /\ sockets = <<>>
  /\ delivered = <<>>
  /\ last = NoRequest
  /\ hist = <<>>
  /\ crashed = FALSE

RunStep(r) ==
  \/ TokenOk(r)
  \/ ManifestOk(r)
  \/ MkdirOk(r)
  \/ LayerTokenOk(r)
  \/ BlobResp(r)
  \/ Chunk(r)
  \/ StreamEnd(r)
  \/ WriteManifestDone(r)
  \/ WriteConfigDone(r)

\* Spec: one Docker Hub task, the control requests of the routes, and
\* failing registry requests
Init ==
  /\ InitService
  /\ env = [creates |-> 1, verbs |-> MaxVerbs, faults |-> MaxFaults,
            sources |-> {"dockerhub"}, images |-> {<<2>>, <<1, 1>>},
            kinds |-> {"Transport"}, ticks |-> {0, 1},
            payloads |-> {TRUE}, saves |-> FALSE]

Next ==
  \/ StartDownload
  \/ \E r \in DOMAIN runs : RunStep(r) \/ DelayDone(r) \/ Fail(r)
  \/ \E taskId \in DOMAIN activeTasks :
       \/ Pause(taskId)
       \/ Resume(taskId)
       \/ Cancel(taskId)
       \/ Delete(taskId)

Spec == Init /\ [][Next]_vars

\* SpecSched: more tasks than maxConcurrentDownloads, created in different
\* milliseconds, a registry that answers every request, no control request
InitSched ==
  /\ InitService
  /\ env = [creates |-> maxConcurrentDownloads + 1, verbs |-> 0, faults |-> 0,
            sources |-> {"dockerhub"}, images |-> {<<1>>}, kinds |-> {},
            ticks |-> {1}, payloads |-> {TRUE}, saves |-> FALSE]

NextSched ==
  \/ StartDownload
  \/ \E r \in DOMAIN runs : RunStep(r)

SpecSched == InitSched /\ [][NextSched]_vars

\* SpecBus: one task whose requests may fail, and the socket.io clients
InitBus ==
  /\ InitService
  /\ env = [creates |-> 1, verbs |-> 0, faults |-> MaxFaults + 1,
            sources |-> {"dockerhub"}, images |-> {<<1>>},
            kinds |-> {"Transport"}, ticks |-> {1}, payloads |-> {TRUE}, saves |-> FALSE]

NextBus ==
  \/ StartDownload
  \/ \E r \in DOMAIN runs : RunStep(r) \/ DelayDone(r) \/ Fail(r)
  \/ Connect
  \/ \E k \in DOMAIN sockets, taskId \in 1..2 :
       JoinRoom(k, taskId) \/ LeaveRoom(k, taskId)

SpecBus == InitBus /\ [][NextBus]_vars

\* SpecFault: one task of any source, a registry that fails up to
\* retryAttempts + 1 times, with a transport error or a 404, and that may
\* send bytes that do not match the digest; no control request
InitFault ==
  /\ InitService
  /\ env = [creates |-> 1, verbs |-> 0, faults |-> retryAttempts + 1,
            sources |-> {"dockerhub", "aliyun", "quay"},
            images |-> {<<2>>, <<1, 1>>},
            kinds |-> {"Transport", "NotFound"}, ticks |-> {1},
            payloads |-> {TRUE, FALSE}, saves |-> FALSE]

NextFault ==
  \/ StartDownload
  \/ \E r \in DOMAIN runs : RunStep(r) \/ DelayDone(r) \/ Fail(r)

SpecFault == InitFault /\ [][NextFault]_vars

\* SpecBudget: one task, a registry that fails up to retryAttempts + 1
\* times, and pause and resume requests
InitBudget ==
  /\ InitService
  /\ env = [creates |-> 1, verbs |-> MaxVerbs - 1, faults |-> retryAttempts + 1,
            sources |-> {"dockerhub"}, images |-> {<<1, 1>>},
            kinds |-> {"Transport"}, ticks |-> {1}, payloads |-> {TRUE}, saves |-> FALSE]

NextBudget ==
  \/ StartDownload
  \/ \E r \in DOMAIN runs : RunStep(r) \/ DelayDone(r) \/ Fail(r)
  \/ \E taskId \in DOMAIN activeTasks : Pause(taskId) \/ Resume(taskId)

SpecBudget == InitBudget /\ [][NextBudget]_vars

\* SpecResume: one task, a registry that answers every request, and pause
\* and resume requests; the history keeps what was on disk at each pause
InitResume ==
  /\ InitService
  /\ env = [creates |-> 1, verbs |-> MaxVerbs - 1, faults |-> 0,
            sources |-> {"dockerhub"}, images |-> {<<2>>, <<1, 1>>},
            kinds |-> {}, ticks |-> {1}, payloads |-> {TRUE}, saves |-> TRUE]

NextResume ==
  \/ StartDownload
  \/ \E r \in DOMAIN runs : RunStep(r) \/ DelayDone(r)
  \/ \E taskId \in DOMAIN activeTasks : Pause(taskId) \/ Resume(taskId)

SpecResume == InitResume /\ [][NextResume]_vars

\* SpecRetry: one task, a registry that fails up to retryAttempts + 1 times,
\* and a caller of downloadService.retryDownload
InitRetry ==
  /\ InitService
  /\ env = [creates |-> 1, verbs |-> MaxVerbs - 2, faults |-> retryAttempts + 1,
            sources |-> {"dockerhub"}, images |-> {<<2>>, <<1, 1>>},
            kinds |-> {"Transport"}, ticks |-> {1}, payloads |-> {TRUE},
            saves |-> FALSE]

NextRetry ==
  \/ StartDownload
  \/ \E r \in DOMAIN runs : RunStep(r) \/ DelayDone(r) \/ Fail(r)
  \/ \E taskId \in DOMAIN activeTasks : Retry(taskId)

SpecRetry == InitRetry /\ [][NextRetry]_vars

\* ------------------------------------------------------------------- claims
LiveRuns(taskId) ==
  {r \in DOMAIN runs : runs[r].pc # "done" /\ runs[r].id = taskId}

InFlight(taskId) ==
  {r \in DOMAIN runs : runs[r].id = taskId /\ runs[r].pc \in {"blobReq", "stream"}}

\* the engine is through with the task object o
Terminal(o) ==
  \/ tasks[o].status \in {"completed", "cancelled"}
  \/ tasks[o].status = "error" /\ LiveRuns(tasks[o].id) = {}

\* this step sends a token, manifest or blob request for the task
Initiates(taskId) ==
  \E r \in DOMAIN runs :
    /\ runs[r].id = taskId
    /\ runs'[r].pc \in {"token", "manifest", "layerToken", "blobReq"}
    /\ <<runs'[r].pc, runs'[r].layer>> # <<runs[r].pc, runs[r].layer>>

\* C1: once a task is completed, failed for good or cancelled, no step other
\* than an explicit retry changes its status, puts a cancelled task back
\* into activeTasks, or sends a request for it
C1_TerminalIsFinal ==
  [][\A o \in DOMAIN tasks :
       (Terminal(o) /\ ~(last'.op = "retry" /\ last'.id = tasks[o].id)) =>
         /\ tasks'[o].status = tasks[o].status
         /\ (tasks[o].status = "cancelled" =>
               ~(tasks[o].id \in DOMAIN activeTasks'
                 /\ activeTasks'[tasks[o].id] = o))
         /\ ~Initiates(tasks[o].id)]_vars

\* C2: no download:progress is emitted for a task whose pause was accepted
\* and that has not been resumed since
C2_NoProgressWhilePaused ==
  \A i \in DOMAIN emitted :
    emitted[i].type = "download:progress" =>
      ~HistOf(hist, emitted[i].taskId).held

\* C3: a task whose pause was accepted is 'paused' until resume, cancel or
\* retry is called on it
C3_PausedStaysPaused ==
  \A taskId \in DOMAIN hist :
    hist[taskId].parked =>
      taskId \in DOMAIN activeTasks /\ StatusOf(taskId) = "paused"

\* C4: at most maxConcurrentDownloads tasks are 'downloading'
C4_ConcurrencyBound ==
  Cardinality({taskId \in DOMAIN activeTasks : StatusOf(taskId) = "downloading"})
    <= maxConcurrentDownloads

\* C5: after a pause or a cancel of a task no blob request or stream of the
\* task is left in flight: each one's controller was tripped
C5_AbortReachesEveryStream ==
  last.op \in {"pause", "cancel"} => InFlight(last.id) = {}

\* C6: a task has at most one download run at any time
C6_OneRunPerTask ==
  \A taskId \in DOMAIN files : Cardinality(LiveRuns(taskId)) <= 1

\* C7: no step decreases the downloadedBytes of a task
C7_DownloadedBytesMonotone ==
  [][\A o \in DOMAIN tasks :
       tasks'[o].downloadedBytes >= tasks[o].downloadedBytes]_vars

\* C7 witness: a task that counted bytes, failed and was retried by the
\* engine, and has just been resumed after a pause
C7_Witness ==
  \E o \in DOMAIN tasks :
    /\ tasks[o].downloadedBytes > 0
    /\ tasks[o].retryCount > 0
    /\ last = [op |-> "resume", id |-> tasks[o].id]

\* C8: no download:progress is emitted for a task after a download:complete
\* or a download:error of that task
C8_TerminalEventIsLast ==
  \A i \in DOMAIN emitted :
    emitted[i].type = "download:progress" =>
      /\ HistOf(hist, emitted[i].taskId).errors = 0
      /\ HistOf(hist, emitted[i].taskId).completes = 0

Count(q, e) == Cardinality({i \in DOMAIN q : q[i] = e})

\* C9: a terminal event reaches every connected socket exactly once, and a
\* task emits download:error at most once
C9_TerminalExactlyOnce ==
  /\ \A i \in DOMAIN emitted :
       emitted[i].type \in {"download:complete", "download:error"} =>
         \A k \in DOMAIN delivered : Count(delivered[k], emitted[i]) = 1
  /\ \A taskId \in DOMAIN hist : hist[taskId].errors <= 1

BytesWritten(taskId) ==
  SumSeq([i \in 1..Cardinality(DOMAIN files[taskId].blobs) |->
            files[taskId].blobs[i]])

\* C10: with no blob transfer of the task in flight, downloadedBytes is the
\* sum of the bytes written to its blob files, and it does not exceed a
\* resolved totalBytes
C10_BytesAccounted ==
  \A taskId \in DOMAIN activeTasks :
    InFlight(taskId) = {} =>
      LET t == tasks[activeTasks[taskId]]
      IN /\ t.downloadedBytes = BytesWritten(taskId)
         /\ (t.totalBytes # 0 => t.downloadedBytes <= t.totalBytes)

\* every layer of the task's image is in its blob file, whole
AllLayersOnDisk(taskId, image) ==
  \A i \in 1..Len(image) :
    i \in DOMAIN files[taskId].blobs /\ files[taskId].blobs[i] = image[i]

\* C11: a completed task has every layer on disk, manifest.json and
\* config.json written and a checksum, and download:complete carries a
\* non-empty checksum
C11_CompletedIsWhole ==
  /\ \A taskId \in DOMAIN activeTasks :
       LET t == tasks[activeTasks[taskId]]
       IN t.status = "completed" =>
            /\ AllLayersOnDisk(taskId, t.image)
            /\ files[taskId].manifest /\ files[taskId].config
            /\ t.checksum # ""
  /\ \A i \in DOMAIN emitted :
       emitted[i].type = "download:complete" => emitted[i].checksum # ""

\* C12: a task with a layer whose file does not hash to the layer's digest
\* is not completed
C12_MismatchNeverCompletes ==
  \A taskId \in DOMAIN activeTasks :
    tasks[activeTasks[taskId]].status = "completed" =>
      files[taskId].corrupt = {}

\* C13: totalBytes is 0 or the size of the config blob plus the sizes of the
\* layers of the selected manifest, and once set it changes only by a retry
C13_TotalBytesResolved ==
  [][\A o \in DOMAIN tasks' :
       /\ \/ tasks'[o].totalBytes = 0
          \/ tasks'[o].totalBytes = ConfigSize + SumSeq(tasks'[o].image)
       /\ (o \in DOMAIN tasks /\ tasks[o].totalBytes # 0 /\ last'.op # "retry")
            => tasks'[o].totalBytes = tasks[o].totalBytes]_vars

\* C14: a task that met a NotFound is failed for good: its status is 'error'
\* and no run of it is left, neither waiting for the retry delay nor
\* re-attempting
C14_NotFoundIsFatal ==
  \A o \in DOMAIN tasks :
    tasks[o].error = "NotFound" =>
      tasks[o].status = "error" /\ LiveRuns(tasks[o].id) = {}

\* this step, an attempt of run r ends in the catch block
Failed(r) ==
  /\ runs[r].pc \notin {"done", "delay"}
  /\ runs'[r].pc \in {"done", "delay"}
  /\ ~(runs[r].pc = "writeConfig" /\ runs'[r].pc = "done")

\* this step, run r starts an attempt again
Reattempts(r) ==
  /\ runs[r].pc \notin {"done", "token", "manifest"}
  /\ runs'[r].pc \in {"token", "manifest"}

\* C15: retryCount never exceeds retryAttempts; a failed attempt either
\* consumes one retry and waits for the retry delay, or, with the retries
\* used up, ends the run and leaves the task in 'error'; and a run starts an
\* attempt again only out of the retry delay
C15_RetryBudget ==
  [][/\ \A o \in DOMAIN tasks' : tasks'[o].retryCount <= retryAttempts
     /\ \A r \in DOMAIN runs :
          /\ Reattempts(r) =>
               runs[r].pc = "delay" /\ tasks[runs[r].task].retryCount >= 1
          /\ Failed(r) =>
               LET o == runs[r].task
               IN IF tasks[o].retryCount < retryAttempts
                  THEN /\ runs'[r].pc = "delay"
                       /\ tasks'[o].retryCount = tasks[o].retryCount + 1
                  ELSE /\ runs'[r].pc = "done"
                       /\ tasks'[o].retryCount = tasks[o].retryCount
                       /\ tasks'[o].status = "error"]_vars

\* C15 witness: the fourth failure happened: the retries are used up, the
\* task is in 'error' and no run of it is left
C15_Witness ==
  \E o \in DOMAIN tasks :
    /\ tasks[o].retryCount = retryAttempts
    /\ tasks[o].status = "error"
    /\ LiveRuns(tasks[o].id) = {}
    /\ HistOf(hist, tasks[o].id).errors >= 2

\* the sources executeDownload dispatches on
KnownSources == {"dockerhub", "aliyun"}

\* C16: a create with an unknown source leaves nothing behind: no task in
\* activeTasks, no task directory, and no run waiting to retry
C16_UnknownSourceRejected ==
  /\ \A taskId \in DOMAIN activeTasks :
       tasks[activeTasks[taskId]].source \in KnownSources
  /\ \A taskId \in DOMAIN files :
       \E o \in DOMAIN tasks :
         tasks[o].id = taskId /\ tasks[o].source \in KnownSources
  /\ \A r \in DOMAIN runs :
       runs[r].pc # "done" => tasks[runs[r].task].source \in KnownSources

\* C17: once a task has been resumed, no blob that was whole on disk when
\* the pause was accepted is requested or streamed again, and the bytes
\* counted stay within totalBytes
C17_ResumeUsesSavedOffsets ==
  \A taskId \in DOMAIN activeTasks :
    LET h == HistOf(hist, taskId)
        t == tasks[activeTasks[taskId]]
    IN (~h.held /\ h.saved # {}) =>
         /\ \A r \in InFlight(taskId) : runs[r].layer \notin h.saved
         /\ (t.totalBytes # 0 => t.downloadedBytes <= t.totalBytes)

\* C18: a retry is accepted only for a failed task (status 'error', no run
\* left), and it sets retryCount to 0, clears the error, leaves the task
\* pending or downloading and keeps downloadedBytes
C18_RetryResets ==
  [][last'.op = "retry" =>
       \A o \in DOMAIN tasks :
         tasks[o].id = last'.id =>
           /\ tasks[o].status = "error" /\ LiveRuns(tasks[o].id) = {}
           /\ tasks'[o].retryCount = 0
           /\ tasks'[o].error = NoError
           /\ tasks'[o].status \in {"pending", "downloading"}
           /\ tasks'[o].downloadedBytes = tasks[o].downloadedBytes]_vars

\* C19: pause and then resume give the task record back as it was: an
\* accepted pause changes nothing in it but the status, to 'paused', and an
\* accepted resume nothing but the status, back to 'downloading'
C19_PauseResumeIdentity ==
  [][\A o \in DOMAIN tasks :
       tasks[o].id = last'.id =>
         /\ last'.op = "pause" =>
              /\ tasks[o].status = "downloading"
              /\ tasks'[o] = [tasks[o] EXCEPT !.status = "paused"]
         /\ last'.op = "resume" =>
              /\ tasks[o].status = "paused"
              /\ tasks'[o] = [tasks[o] EXCEPT !.status = "downloading"]]_vars

\* C20: after a create, a cancel and a delete of a task that all succeeded,
\* activeTasks and taskControllers are empty and no run of the task is
\* left, neither downloading nor waiting for the retry delay
C20_CreateCancelDelete ==
  (/\ last.op = "delete"
   /\ \E o \in DOMAIN tasks :
        tasks[o].id = last.id /\ tasks[o].status = "cancelled")
    => /\ DOMAIN activeTasks = {}
       /\ DOMAIN taskControllers = {}
       /\ LiveRuns(last.id) = {}

\* C21: once a DELETE /api/downloads/:taskId has answered 200, the task is
\* gone: getTask(taskId) finds nothing and getAllTasks does not list it
C21_DeleteRemovesTask ==
  last.op = "delete" => last.id \notin DOMAIN activeTasks

\* SpecStore: two tasks created in different milliseconds, a registry that
\* answers every request, and DELETE requests
InitStore ==
  /\ InitService
  /\ env = [creates |-> 2, verbs |-> MaxVerbs - 1, faults |-> 0,
            sources |-> {"dockerhub"}, images |-> {<<1>>}, kinds |-> {},
            ticks |-> {1}, payloads |-> {TRUE}, saves |-> FALSE]

NextStore ==
  \/ StartDownload
  \/ \E r \in DOMAIN runs : RunStep(r)
  \/ \E taskId \in DOMAIN activeTasks : Delete(taskId)

SpecStore == InitStore /\ [][NextStore]_vars

\* C22: a DELETE /api/downloads/:taskId that answers 200 leaves every other
\* task in activeTasks, with its record unchanged
C22_DeleteIsTargeted ==
  [][last'.op = "delete" =>
       \A taskId \in DOMAIN activeTasks \ {last'.id} :
         /\ taskId \in DOMAIN activeTasks'
         /\ tasks'[activeTasks'[taskId]] = tasks[activeTasks[taskId]]]_vars

\* C23: a POST /api/downloads/:taskId/cancel that answers 200 leaves the
\* task in activeTasks with status 'cancelled', so that the response, which
\* is getTask(taskId), and every later GET carry the cancelled task
C23_CancelKeepsTask ==
  last.op = "cancel" =>
    /\ last.id \in DOMAIN activeTasks
    /\ StatusOf(last.id) = "cancelled"

\* the control routes: what each answers, from its two checks
Verbs == {"pause", "resume", "cancel", "delete"}

\* the second check of the route: the statuses it answers 400 for
\*   pause:  task.status !== 'downloading'    resume: task.status !== 'paused'
\*   cancel: task.status === 'completed'      delete: task.status === 'downloading'
CancelRefusesIdle(op, status) ==
  CASE op = "pause"  -> status # "downloading"
    [] op = "resume" -> status # "paused"
    [] op = "cancel" -> status # "downloading"
    [] op = "delete" -> status = "downloading"

InvalidStatus(op, status) ==
  CASE op = "pause"  -> status # "downloading"
    [] op = "resume" -> status # "paused"
    [] op = "cancel" -> status = "completed"
    [] op = "delete" -> status = "downloading"

\* res.status(...) of the route for taskId, in state s
Answer(s, op, taskId) ==
  IF taskId \notin DOMAIN s.activeTasks THEN 404
  ELSE IF InvalidStatus(op, s.tasks[s.activeTasks[taskId]].status) THEN 400
  ELSE 200

\* what `last` records of a request that was answered 404 or 400
NotFound == [pause |-> "pause 404", resume |-> "resume 404",
             cancel |-> "cancel 404", delete |-> "delete 404"]
Invalid  == [pause |-> "pause 400", resume |-> "resume 400",
             cancel |-> "cancel 400", delete |-> "delete 400"]

\* a control route returns early, with 404 or 400
Refuse(op, taskId) ==
  /\ ~crashed /\ env.verbs > 0
  /\ Answer(Cur, op, taskId) # 200
  /\ Apply(Cur)
  /\ Request(IF Answer(Cur, op, taskId) = 404 THEN NotFound[op] ELSE Invalid[op],
             taskId)

\* SpecRoutes: one task whose requests may fail, and control requests for
\* its id and for ids the service does not hold, accepted or refused
InitRoutes ==
  /\ InitService
  /\ env = [creates |-> 1, verbs |-> MaxVerbs - 1, faults |-> MaxFaults,
            sources |-> {"dockerhub"}, images |-> {<<1>>},
            kinds |-> {"Transport"}, ticks |-> {1}, payloads |-> {TRUE},
            saves |-> FALSE]

NextRoutes ==
  \/ StartDownload
  \/ \E r \in DOMAIN runs : RunStep(r) \/ DelayDone(r) \/ Fail(r)
  \/ \E taskId \in DOMAIN activeTasks :
       \/ Pause(taskId)
       \/ Resume(taskId)
       \/ Cancel(taskId)
       \/ Delete(taskId)
  \/ \E op \in Verbs, taskId \in 1..(clock + 1) : Refuse(op, taskId)

SpecRoutes == InitRoutes /\ [][NextRoutes]_vars

\* C24: pause is refused with 400 exactly for a task that is not
\* downloading, resume for one that is not paused, cancel for a completed
\* one, delete for a downloading one; a request for an id that is not in
\* activeTasks is refused with 404; a request is accepted only when neither
\* holds; and a refused request leaves tasks, activeTasks, taskControllers,
\* runs and files as they were
C24_RejectsExactly ==
  [][\A op \in Verbs, taskId \in 1..(clock + 1) :
       LET known == taskId \in DOMAIN activeTasks
           status == tasks[activeTasks[taskId]].status
           forbidden ==
             \/ op = "pause"  /\ status # "downloading"
             \/ op = "resume" /\ status # "paused"
             \/ op = "cancel" /\ status = "completed"
             \/ op = "delete" /\ status = "downloading"
           kept == UNCHANGED <<tasks, activeTasks, taskControllers, runs, files>>
       IN /\ Answer(Cur, op, taskId) = 404 <=> ~known
          /\ Answer(Cur, op, taskId) = 400 <=> (known /\ forbidden)
          /\ last' = [op |-> NotFound[op], id |-> taskId] => ~known /\ kept
          /\ last' = [op |-> Invalid[op], id |-> taskId] =>
               known /\ forbidden /\ kept
          /\ last' = [op |-> op, id |-> taskId] => known /\ ~forbidden]_vars

\* C24 witness: a request for a task that is in activeTasks, holding a
\* controller and with a blob request in flight, has just been refused
C24_Witness ==
  /\ last.op \in {Invalid[op] : op \in Verbs}
  /\ last.id \in DOMAIN taskControllers
  /\ InFlight(last.id) # {}

\* C25: pause is idempotent: a pause request for a task that is already
\* paused, or that is completed, answers 200 and leaves the task record as
\* it was
C25_PauseIdempotent ==
  [][\A taskId \in DOMAIN activeTasks :
       (/\ StatusOf(taskId) \in {"paused", "completed"}
        /\ last'.id = taskId
        /\ last'.op \in {"pause", NotFound["pause"], Invalid["pause"]})
       => /\ last'.op = "pause"
          /\ tasks'[activeTasks[taskId]] = tasks[activeTasks[taskId]]]_vars

\* SpecIds: two tasks whose create requests may arrive in the same
\* millisecond, a registry that answers every request, no control request
InitIds ==
  /\ InitService
  /\ env = [creates |-> 2, verbs |-> 0, faults |-> 0,
            sources |-> {"dockerhub"}, images |-> {<<1>>, <<2>>}, kinds |-> {},
            ticks |-> {0, 1}, payloads |-> {TRUE}, saves |-> FALSE]

NextIds ==
  \/ StartDownload
  \/ \E r \in DOMAIN runs : RunStep(r)

SpecIds == InitIds /\ [][NextIds]_vars

\* C26: no two tasks created by startDownload have the same id, and a create
\* leaves every task that was in activeTasks there, as the same task
C26_IdsUnique ==
  [][/\ \A o1, o2 \in DOMAIN tasks' : tasks'[o1].id = tasks'[o2].id => o1 = o2
     /\ \A taskId \in DOMAIN activeTasks :
          last'.op = "create" => /\ taskId \in DOMAIN activeTasks'
                                 /\ activeTasks'[taskId] = activeTasks[taskId]]_vars

\* C27: a task that startDownload has put into activeTasks stays there, as
\* the same task, through every step that is not an accepted DELETE of its
\* id
C27_ListedUntilDeleted ==
  [][\A taskId \in DOMAIN activeTasks :
       last' # [op |-> "delete", id |-> taskId] =>
         /\ taskId \in DOMAIN activeTasks'
         /\ activeTasks'[taskId] = activeTasks[taskId]]_vars

\* a 250 ms window ends with no request handled and no chunk received: the
\* events of the step before belong to the window that is over
WindowEnds ==
  /\ ~crashed
  /\ Apply(Cur)
  /\ Io

\* SpecRate: one task, a registry that answers every request and sends a
\* blob in chunks, and the passing of time
InitRate ==
  /\ InitService
  /\ env = [creates |-> 1, verbs |-> 0, faults |-> 0,
            sources |-> {"dockerhub"}, images |-> {<<2>>, <<3>>, <<2, 2>>, <<1, 3>>},
            kinds |-> {}, ticks |-> {1}, payloads |-> {TRUE}, saves |-> FALSE]

NextRate ==
  \/ StartDownload
  \/ \E r \in DOMAIN runs : RunStep(r)
  \/ WindowEnds

SpecRate == InitRate /\ [][NextRate]_vars

\* the download:progress events of the task in a list of events
ProgressOf(q, taskId) ==
  {i \in DOMAIN q : q[i].type = "download:progress" /\ q[i].taskId = taskId}

\* C28: a task emits at most one download:progress per 250 ms window: no
\* step emits two, and of two steps with no end of window between them at
\* most one emits a download:progress of the task
C28_ProgressRateLimited ==
  [][\A taskId \in DOMAIN files :
       /\ Cardinality(ProgressOf(emitted', taskId)) <= 1
       /\ ~(ProgressOf(emitted, taskId) # {} /\ ProgressOf(emitted', taskId) # {})]_vars

\* ------------------------------------------------- the manifest reference
MaxEntries == 3

\* the platform of an entry of a manifest list
Platforms == [os : {"linux", "windows"}, architecture : {"amd64", "arm64"}]

\* listResp.data: a manifest list with up to MaxEntries entries, or a
\* manifest, which has no `manifests`
Documents ==
  {[list |-> FALSE, manifests |-> <<>>]} \cup
  {[list |-> TRUE, manifests |-> m] :
     m \in UNION {[1..n -> Platforms] : n \in 0..MaxEntries}}

\* Array.prototype.find, the predicate given as the set of the entries that
\* pass: the first index whose entry passes, 0 for undefined
find(q, passing) ==
  LET hits == {i \in DOMAIN q : q[i] \in passing}
  IN IF hits = {} THEN 0 ELSE CHOOSE i \in hits : \A j \in hits : i <= j

IsAmd64 == {x \in Platforms : x.architecture = "amd64"}

\* the reference of the second manifest request, `digest || tag`: the digest
\* of entry i of the list (i), or the tag (0)
selectDigest(doc) ==
  IF ~doc.list THEN 0
  ELSE IF find(doc.manifests, IsAmd64) # 0 THEN find(doc.manifests, IsAmd64)
  ELSE IF Len(doc.manifests) > 0 THEN 1
  ELSE 0

\* getDockerManifestInfo / getGenericManifestInfo receive the first document
\* and send the second request
GetManifestInfo ==
  /\ ~env.fetched
  /\ env' = [env EXCEPT !.reference = selectDigest(env.document),
                        !.fetched = TRUE]
  /\ UNCHANGED <<tasks, activeTasks, taskControllers, runs, files, clock,
                 emitted, sockets, delivered, last, hist, crashed>>

\* SpecPlatform: the choice of the manifest, for every first document
InitPlatform ==
  /\ InitService
  /\ env \in {[creates |-> 0, verbs |-> 0, faults |-> 0, sources |-> {},
               images |-> {}, kinds |-> {}, ticks |-> {}, payloads |-> {},
               saves |-> FALSE, document |-> d, reference |-> 0,
               fetched |-> FALSE] : d \in Documents}

NextPlatform == GetManifestInfo

SpecPlatform == InitPlatform /\ [][NextPlatform]_vars

\* C29: of a manifest list the entry requested is the first linux/amd64
\* entry, if there is none the first amd64 entry of any OS, if there is none
\* the first entry; a document that is a manifest is requested by the tag
C29_PlatformOrder ==
  env.fetched =>
    LET m == env.document.manifests
        exact == {i \in DOMAIN m : m[i] = [os |-> "linux", architecture |-> "amd64"]}
        arch == {i \in DOMAIN m : m[i].architecture = "amd64"}
        First(S) == CHOOSE i \in S : \A j \in S : i <= j
    IN env.reference =
         (IF ~env.document.list \/ m = <<>> THEN 0
          ELSE IF exact # {} THEN First(exact)
          ELSE IF arch # {} THEN First(arch)
          ELSE 1)

\* ------------------------------------------------------ repository names
MaxName == 4
MaxCalls == 2

\* a name is a sequence of characters
Library == <<"l", "i", "b", "r", "a", "r", "y", "/">>

\* the image names a caller passes: not empty (the routes answer 400 for a
\* missing name, and the search keeps only results that have one)
Names == UNION {[1..n -> {"a", "b", "/"}] : n \in 1..MaxName}

\* String.prototype.includes for a one-character pattern
includes(name, c) == \E i \in DOMAIN name : name[i] = c

\* a normalisation that prefixes every name
normalizeAlways(name) == Library \o name

\* downloadService.ts
normalizeDockerRepo(name) ==
  IF includes(name, "/") THEN name ELSE Library \o name

\* imageService.ts
normalizeDockerRepo_imageService(name) ==
  IF name = <<>> THEN <<>>
  ELSE IF includes(name, "/") THEN name ELSE Library \o name

\* both services normalise the name; a second call normalises the result
NormalizeRepo ==
  /\ env.calls < MaxCalls
  /\ env' = [env EXCEPT !.repo = normalizeDockerRepo(@),
                        !.repoPath = normalizeDockerRepo_imageService(@),
                        !.calls = @ + 1]
  /\ UNCHANGED <<tasks, activeTasks, taskControllers, runs, files, clock,
                 emitted, sockets, delivered, last, hist, crashed>>

\* SpecRepo: normalizeDockerRepo applied, once and again, to every name
InitRepo ==
  /\ InitService
  /\ env \in {[creates |-> 0, verbs |-> 0, faults |-> 0, sources |-> {},
               images |-> {}, kinds |-> {}, ticks |-> {}, payloads |-> {},
               saves |-> FALSE, name |-> n, repo |-> n, repoPath |-> n,
               calls |-> 0] : n \in Names}

NextRepo == NormalizeRepo

SpecRepo == InitRepo /\ [][NextRepo]_vars

\* C30: normalising a name without '/' gives library/ followed by the name,
\* normalising a name with a '/' gives the name, and normalising the result
\* again gives the result
C30_NormaliseRepo ==
  env.calls >= 1 =>
    LET n == env.name
        bare == \A i \in 1..Len(n) : n[i] # "/"
        expected == IF bare
                    THEN [i \in 1..(Len(n) + 8) |->
                            IF i <= 8 THEN Library[i] ELSE n[i - 8]]
                    ELSE n
    IN env.repo = expected /\ env.repoPath = expected

\* C30 witness: a name without '/' that was normalised twice, and is now
\* longer than it was
C30_Witness ==
  /\ env.calls = MaxCalls
  /\ \A i \in DOMAIN env.name : env.name[i] # "/"
  /\ Len(env.repo) > Len(env.name)

\* ------------------------------------------- routes/images.ts: the router
\* the routes in the order router.get registers them; a route is a literal
\* segment, or a parameter that takes any segment
imageRoutes ==
  << [handler |-> "search",  param |-> FALSE, segment |-> "search"],
     [handler |-> "popular", param |-> FALSE, segment |-> "popular"],
     [handler |-> "details", param |-> TRUE,  segment |-> "name"],
     [handler |-> "size",    param |-> FALSE, segment |-> "size"] >>

\* GET /api/images/<path> with its query, and what the services return for
\* it: getImageDetails finds the image or null, getDockerHubImageSize bytes
ImageRequests ==
  [path : {"search", "popular", "size", "nginx", "redis"},
   name : BOOLEAN, query : BOOLEAN, source : {"dockerhub", "aliyun"},
   found : BOOLEAN, bytes : {0, 1}]

\* express: the first registered route whose path matches handles the
\* request (no handler of this router calls next()); 0: none
dispatch(path) ==
  LET hits == {i \in DOMAIN imageRoutes :
                 imageRoutes[i].param \/ imageRoutes[i].segment = path}
  IN IF hits = {} THEN 0 ELSE CHOOSE i \in hits : \A j \in hits : i <= j

\* res.status(...).json(...) of each handler
respond(handler, req) ==
  CASE handler = "search" ->
         IF ~req.query THEN [by |-> handler, status |-> 400, data |-> "message"]
         ELSE [by |-> handler, status |-> 200, data |-> "images"]
    [] handler = "popular" ->
         [by |-> handler, status |-> 200, data |-> "images"]
    [] handler = "details" ->
         IF ~req.found THEN [by |-> handler, status |-> 404, data |-> "message"]
         ELSE [by |-> handler, status |-> 200, data |-> "image"]
    [] handler = "size" ->
         IF ~req.name THEN [by |-> handler, status |-> 400, data |-> "message"]
         ELSE [by |-> handler, status |-> 200,
               data |-> IF req.source = "dockerhub" /\ req.bytes # 0
                        THEN "sizeBytes, size" ELSE "0, Unknown"]
    [] OTHER -> [by |-> "none", status |-> 404, data |-> "message"]

NoResponse == [by |-> "none", status |-> 0, data |-> ""]

\* the images router handles the request
HandleImages ==
  /\ env.response = NoResponse
  /\ env' = [env EXCEPT !.response =
               IF dispatch(env.request.path) = 0 THEN respond("none", env.request)
               ELSE respond(imageRoutes[dispatch(env.request.path)].handler,
                            env.request)]
  /\ UNCHANGED <<tasks, activeTasks, taskControllers, runs, files, clock,
                 emitted, sockets, delivered, last, hist, crashed>>

\* SpecImages: every GET request to /api/images/<path>
InitImages ==
  /\ InitService
  /\ env \in {[creates |-> 0, verbs |-> 0, faults |-> 0, sources |-> {},
               images |-> {}, kinds |-> {}, ticks |-> {}, payloads |-> {},
               saves |-> FALSE, request |-> q, response |-> NoResponse] :
              q \in ImageRequests}

NextImages == HandleImages

SpecImages == InitImages /\ [][NextImages]_vars

\* C31: GET /api/images/size is answered by the size route: 400 when the
\* name parameter is missing, else 200 with sizeBytes and size
C31_SizeRouteAnswers ==
  (env.response # NoResponse /\ env.request.path = "size") =>
    /\ env.response.by = "size"
    /\ env.response.status = (IF env.request.name THEN 200 ELSE 400)
    /\ env.request.name => env.response.data \in {"sizeBytes, size", "0, Unknown"}

\* C32: every download:progress of a task carries a percentage in 0..100
\* that is not below the percentage the task had before, and a task that
\* becomes completed has progress 100
C32_ProgressMonotoneTo100 ==
  [][\A o \in DOMAIN tasks :
       /\ \A i \in ProgressOf(emitted', tasks[o].id) :
            /\ emitted'[i].progress.n >= 0
            /\ emitted'[i].progress.n <= emitted'[i].progress.d
            /\ emitted'[i].progress.n * tasks[o].progress.d
                 >= tasks[o].progress.n * emitted'[i].progress.d
       /\ (tasks'[o].status = "completed" /\ tasks[o].status # "completed")
            => tasks'[o].progress.n = tasks'[o].progress.d]_vars

\* C33: a task that is downloading or completed carries no error: the
\* error of a failed attempt is cleared when the task downloads again
C33_ErrorCleared ==
  \A o \in DOMAIN tasks :
    tasks[o].status \in {"downloading", "completed"} => tasks[o].error = NoError

\* C34: taskControllers has an entry for a task exactly while a blob
\* request or stream of the task is open, and the entry is the controller of
\* that open transfer
C34_ControllersMatchStreams ==
  /\ \A taskId \in DOMAIN taskControllers :
       taskControllers[taskId] \in InFlight(taskId)
  /\ \A r \in DOMAIN runs :
       runs[r].pc \in {"blobReq", "stream"} =>
         /\ runs[r].id \in DOMAIN taskControllers
         /\ taskControllers[runs[r].id] = r

\* C35: a run requests layer i + 1 only when the stream of layer i has
\* delivered the whole layer and ended (layer 1 when blobs/ is made), one
\* layer at a time; manifest.json is written only after the last layer
\* ended, and config.json only after manifest.json
C35_LayersInOrder ==
  [][/\ \A r \in DOMAIN runs :
          LET a == runs[r]
              b == runs'[r]
              ended == /\ a.pc = "stream"
                       /\ a.downloaded = tasks[a.task].image[a.layer]
          IN /\ (b.pc \in {"layerToken", "blobReq", "stream"} /\ b.layer # a.layer)
                  => /\ b.layer = a.layer + 1
                     /\ b.pc # "stream"
                     /\ IF a.layer = 0 THEN a.pc = "mkdir" ELSE ended
             /\ (b.pc = "writeManifest" /\ a.pc # "writeManifest")
                  => IF tasks[a.task].image = <<>> THEN a.pc = "mkdir"
                     ELSE ended /\ a.layer = Len(tasks[a.task].image)
             /\ (b.pc = "writeConfig" /\ a.pc # "writeConfig")
                  => a.pc = "writeManifest"
     /\ \A taskId \in DOMAIN files :
          /\ (files'[taskId].manifest /\ ~files[taskId].manifest)
               => \E r \in DOMAIN runs :
                    runs[r].id = taskId /\ runs[r].pc = "writeManifest"
          /\ (files'[taskId].config /\ ~files[taskId].config)
               => \E r \in DOMAIN runs :
                    runs[r].id = taskId /\ runs[r].pc = "writeConfig"]_vars

\* C35 witness: a run that failed and started again has fetched both layers
\* and written manifest.json
C35_Witness ==
  \E r \in DOMAIN runs :
    /\ runs[r].pc = "writeConfig"
    /\ tasks[runs[r].task].retryCount > 0
    /\ Len(tasks[runs[r].task].image) = 2
    /\ files[runs[r].id].manifest

\* SpecLive: one task of any source, no control request, a registry that
\* fails up to retryAttempts + 1 times; an awaited request, stream, write
\* or delay that can complete eventually does
InitLive ==
  /\ InitService
  /\ env = [creates |-> 1, verbs |-> 0, faults |-> retryAttempts + 1,
            sources |-> {"dockerhub", "aliyun", "quay"},
            images |-> {<<2>>, <<1, 1>>}, kinds |-> {"Transport"},
            ticks |-> {1}, payloads |-> {TRUE}, saves |-> FALSE]

SpecLive ==
  /\ InitLive
  /\ [][NextFault]_vars
  /\ WF_vars(\E r \in DOMAIN runs : RunStep(r) \/ DelayDone(r))

\* every task is completed or in error, and no run of it is left
Settled ==
  /\ tasks # <<>>
  /\ \A o \in DOMAIN tasks :
       /\ tasks[o].status \in {"completed", "error"}
       /\ LiveRuns(tasks[o].id) = {}

\* C36: with no control request, a created task eventually is completed or
\* in error with no run left, and from then on nothing changes that
C36_RunTerminates ==
  /\ (tasks # <<>>) ~> Settled
  /\ [][Settled => Settled']_vars

\* C36 witness: a task in error with no run left after retryAttempts
\* retries, that is retryAttempts + 1 attempts
C36_Witness ==
  \E o \in DOMAIN tasks :
    /\ tasks[o].status = "error"
    /\ tasks[o].retryCount = retryAttempts
    /\ tasks[o].source \in KnownSources
    /\ LiveRuns(tasks[o].id) = {}

\* ------------------------------------ DownloadPage: control over the socket
\* the events pauseTask, resumeTask, cancelTask and retryTask emit
ControlEvents == {"pauseDownload", "resumeDownload", "cancelDownload",
                  "retryDownload"}

\* socket.emit(event, taskId) of a connected page reaches the server:
\* setupSocketHandlers registers join-room, leave-room, disconnect and
\* error, so no listener runs for it
SocketControl(k, event, taskId) ==
  /\ ~crashed /\ env.verbs > 0
  /\ k \in DOMAIN sockets
  /\ Apply(Cur)
  /\ Request(event, taskId)

\* SpecSocket: one task, a registry that answers every request, and a page
\* that sends control events over its socket; an awaited request, stream or
\* write eventually completes
InitSocket ==
  /\ InitService
  /\ env = [creates |-> 1, verbs |-> MaxVerbs - 1, faults |-> 0,
            sources |-> {"dockerhub"}, images |-> {<<1>>, <<2>>},
            kinds |-> {}, ticks |-> {1}, payloads |-> {TRUE}, saves |-> FALSE]

NextSocket ==
  \/ StartDownload
  \/ \E r \in DOMAIN runs : RunStep(r)
  \/ Connect
  \/ \E k \in DOMAIN sockets, event \in ControlEvents,
        taskId \in DOMAIN activeTasks : SocketControl(k, event, taskId)

SpecSocket ==
  /\ InitSocket
  /\ [][NextSocket]_vars
  /\ WF_vars(\E r \in DOMAIN runs : RunStep(r))

\* C37: a pauseDownload event sent over the socket for a task that is
\* downloading leads to that task being paused
C37_SocketPauseApplied ==
  (/\ last.op = "pauseDownload"
   /\ last.id \in DOMAIN activeTasks
   /\ StatusOf(last.id) = "downloading")
  ~> (\E o \in DOMAIN tasks : tasks[o].status = "paused")

\* ------------------------------------------------ store/index.ts: useStore
MaxUiTasks == 2

\* a task as the store sees it: updateDownloadTask reads its id, the
\* counters its status
UiTasks == [id : 1..2, status : {"pending", "downloading", "completed"}]

\* the Partial<DownloadTask> of an update: a new status, or no status
UiUpdates == {"pending", "downloading", "completed", "unchanged"}


\* tasks.filter(task => task.status === 'downloading').length
downloading(q) == Cardinality({i \in DOMAIN q : q[i].status = "downloading"})

\* set({ downloadTasks: tasks })
setDownloadTasks(st, newTasks) == [st EXCEPT !.downloadTasks = newTasks]

addDownloadTask(st, task) ==
  [st EXCEPT !.downloadTasks = Append(@, task),
             !.activeDownloads = @ + (IF task.status = "downloading" THEN 1 ELSE 0)]

updateDownloadTask(st, taskId, updates) ==
  LET newTasks == [i \in DOMAIN st.downloadTasks |->
                     IF st.downloadTasks[i].id = taskId /\ updates # "unchanged"
                     THEN [st.downloadTasks[i] EXCEPT !.status = updates]
                     ELSE st.downloadTasks[i]]
  IN [st EXCEPT !.downloadTasks = newTasks,
                !.activeDownloads = downloading(newTasks)]

removeDownloadTask(st, taskId) ==
  LET hits == {i \in DOMAIN st.downloadTasks : st.downloadTasks[i].id # taskId}
      newTasks == [n \in 1..Cardinality(hits) |->
                     st.downloadTasks[CHOOSE i \in hits :
                        Cardinality({j \in hits : j < i}) = n - 1]]
  IN [st EXCEPT !.downloadTasks = newTasks,
                !.activeDownloads = downloading(newTasks)]

\* one call of a download task action of the store
UiStep(st, call) ==
  /\ env' = [env EXCEPT !.store = st, !.call = call]
  /\ UNCHANGED <<tasks, activeTasks, taskControllers, runs, files, clock,
                 emitted, sockets, delivered, last, hist, crashed>>

SetDownloadTasks ==
  \E newTasks \in UNION {[1..n -> UiTasks] : n \in 0..MaxUiTasks} :
    UiStep(setDownloadTasks(env.store, newTasks), "setDownloadTasks")

\* the list and the counter are kept within MaxUiTasks
AddDownloadTask ==
  /\ Len(env.store.downloadTasks) < MaxUiTasks
  /\ env.store.activeDownloads < MaxUiTasks
  /\ \E task \in UiTasks :
       UiStep(addDownloadTask(env.store, task), "addDownloadTask")

UpdateDownloadTask ==
  \E taskId \in 1..2, updates \in UiUpdates :
    UiStep(updateDownloadTask(env.store, taskId, updates), "updateDownloadTask")

RemoveDownloadTask ==
  \E taskId \in 1..2 :
    UiStep(removeDownloadTask(env.store, taskId), "removeDownloadTask")

\* SpecUi: the download task actions of the store, in any order
InitUi ==
  /\ InitService
  /\ env = [creates |-> 0, verbs |-> 0, faults |-> 0, sources |-> {},
            images |-> {}, kinds |-> {}, ticks |-> {}, payloads |-> {},
            saves |-> FALSE, call |-> "create",
            store |-> [downloadTasks |-> <<>>, activeDownloads |-> 0]]

NextUi ==
  \/ SetDownloadTasks
  \/ AddDownloadTask
  \/ UpdateDownloadTask
  \/ RemoveDownloadTask

SpecUi == InitUi /\ [][NextUi]_vars

\* C38: activeDownloads is the number of tasks of downloadTasks whose status
\* is 'downloading'
C38_ActiveDownloadsCounts ==
  env.store.activeDownloads = downloading(env.store.downloadTasks)

====
